---------------------------- MODULE Spec2Model ----------------------------
(***************************************************************************)
(* Model of the training loop of PennylaneNeuralNetwork                    *)
(* (prevision_quantum_nn/models/pennylane_backend/qnn_pennylane.py).       *)
(*                                                                         *)
(* Parameters (self.var, the local var of fit) are abstracted to records   *)
(* [id, whole]: id names one value of the weights, whole tells a complete  *)
(* weight array from a slice along its first axis.  Every optimizer update *)
(* yields a fresh id.  Features, labels, batches and the verbose logging   *)
(* carry no state the properties read and are left out; the circuit        *)
(* (neural_network) and file output (np.savez) are black boxes that        *)
(* return.  The early stopper object lives outside this file's source and  *)
(* follows its description: best loss and parameters, and a count of the   *)
(* updates since the last improvement.                                     *)
(***************************************************************************)
EXTENDS Integers, Sequences, FiniteSets

VARIABLES
    \* ---- configuration, read once by __init__ ----
    interface,                  \* self.interface
    optimizer_name,             \* self.optimizer_name
    type_problem,               \* self.type_problem
    training_type,              \* self.training_type
    layerwise_learning_period,  \* self.layerwise_learning_period
    num_layers,                 \* self.num_layers
    max_iterations,             \* self.max_iterations
    snapshot_frequency,         \* self.snapshot_frequency
    early_stopper_patience,     \* self.early_stopper_patience
    early_stopper,              \* self.early_stopper is set (truthy)
    \* ---- object state ----
    built,                      \* self.built
    optimizer,                  \* self.optimizer
    var,                        \* self.var
    iteration,                  \* self.iteration
    es,                         \* state of the early stopper object
    \* ---- the running fit call ----
    pc,                         \* "idle" | "loop"
    lvar,                       \* local variable var of fit
    stopping_criterion,         \* local variable of fit
    val_features,               \* validation data was passed
    plotter_callback,           \* a callback was passed
    \* ---- what the calls did ----
    call,                       \* last operation called
    result,                     \* how it ended
    next_id,                    \* ids handed out so far
    fits,                       \* fit calls made on the built model
    n_steps,                    \* calls of step in this fit call
    n_best,                     \* best snapshots written in this fit call
    best_at,                    \* n_steps when the best snapshot was written
    best_file,                  \* content of <prefix>_best_weights.npz
    files,                      \* periodic snapshots written in this fit call
    rnd                         \* what the last round of the loop did

config == <<interface, optimizer_name, type_problem, training_type,
            layerwise_learning_period, num_layers, max_iterations,
            snapshot_frequency, early_stopper_patience, early_stopper>>
object == <<built, optimizer, var, iteration, es>>
locals == <<pc, lvar, stopping_criterion, val_features, plotter_callback>>
observed == <<call, result, next_id, fits, n_steps, n_best, best_at,
              best_file, files, rnd>>
vars == <<config, object, locals, observed>>

\* ---------------------------------------------------------------- bounds
MaxIter == 5
MaxFreq == 2
MaxPatience == 1
MaxLoss == 1
MaxLayers == 2
MaxPeriod == 1
MaxFits == 2

\* ------------------------------------------------------------- constants
OPTIMIZER_NAMES == {"SGD", "Adagrad", "Adam", "RMSProp"}
LayerwiseDivisor == 20

Interfaces == {"autograd", "tf"}
TypeProblems == {"regression", "classification", "multiclassification",
                 "reinforcement_learning", "descriptor_computation"}
TrainingTypes == {"default", "layerwise"}

None == [id |-> -1, whole |-> FALSE]
NoRound == [iter |-> -1, error |-> "none", pair |-> FALSE, grad |-> {},
            given |-> None, stepped |-> None, norm_at |-> None,
            updated |-> FALSE, stop |-> FALSE, snapped |-> FALSE,
            called |-> FALSE]
NewEs == [best_loss |-> MaxLoss + 1, best_var |-> None, count |-> 0]


\* ------------------------------------------------------------ collaborators
\* Classes the two optimizer libraries define under the names the code uses.
QmlOptimize == {"GradientDescentOptimizer", "AdagradOptimizer",
                "AdamOptimizer", "RMSPropOptimizer"}
TfKerasOptimizers == {"SGD", "Adagrad", "Adam", "RMSprop", "Adadelta",
                      "Adamax", "Nadam", "Ftrl"}

\* The attribute build_optimizer looks up for a recognized name.
QmlClass(name) ==
    CASE name = "SGD" -> "GradientDescentOptimizer"
      [] name = "Adagrad" -> "AdagradOptimizer"
      [] name = "Adam" -> "AdamOptimizer"
      [] name = "RMSProp" -> "RMSPropOptimizer"
TfClass(name) == name

NoOptimizer == [module |-> "None", class |-> "None"]

\* Attribute access module.class: the object, or AttributeError.
Construct(module, defined, class, old) ==
    IF class \in defined
    THEN [error |-> "none", optimizer |-> [module |-> module, class |-> class]]
    ELSE [error |-> "AttributeError", optimizer |-> old]

\* build_optimizer: the error it raises and the value of self.optimizer after.
BuildOptimizer(name, iface, old) ==
    IF name \notin OPTIMIZER_NAMES
    THEN [error |-> "ValueError", optimizer |-> old]
    ELSE IF iface = "autograd"
    THEN Construct("qml.optimize", QmlOptimize, QmlClass(name), old)
    ELSE IF iface = "tf"
    THEN Construct("tf.keras.optimizers", TfKerasOptimizers, TfClass(name), old)
    ELSE [error |-> "none", optimizer |-> old]

\* cost: "loss" when a branch assigns loss, else the unbound local is read.
Cost(iface, tp) ==
    IF iface \in {"autograd", "tf"}
       /\ tp \in {"regression", "classification", "multiclassification",
                  "reinforcement_learning"}
    THEN "loss"
    ELSE "UnboundLocalError"

\* predict_proba: how the call ends.
PredictProbaResult(iface, tp) ==
    IF tp = "classification" THEN "proba"
    ELSE IF tp = "multiclassification"
    THEN IF iface \in {"autograd", "tf"} THEN "proba" ELSE "UnboundLocalError"
    ELSE IF tp \in {"regression", "reinforcement_learning"} THEN "ValueError"
    ELSE "UnboundLocalError"

AllLayers(n) == 0 .. (n - 1)

\* The layer step leaves differentiable in layer-wise mode.
LayerIndex(it, n) == (it \div LayerwiseDivisor) % n

\* The gradient for the norm taken before the optimizer update.
GradientPointBefore(before, after) == before

\* get_gradient(objective_cost)(var): var was rebound to what optimizer.step
\* returned before the gradient for the norm is taken.
GradientPoint(before, after) == after

\* step(features, labels, var, norm_grad) at iteration it; fresh is the id of
\* the updated weights.  error: the exception raised, if any; var: the weights
\* returned; pair: a tuple (var, norm) is returned; grad: the layers whose
\* gradient is taken; inplace: the weights object passed in was itself updated;
\* norm_at: the weights at which the gradient of the returned norm is taken.
Step(iface, layerwise, tp, n, v, it, norm_grad, fresh) ==
    LET new == [id |-> fresh, whole |-> v.whole] IN
    IF iface = "autograd"
    THEN IF Cost(iface, tp) # "loss"
         THEN [error |-> Cost(iface, tp), var |-> v, pair |-> FALSE,
               grad |-> IF layerwise THEN {LayerIndex(it, n)} ELSE AllLayers(n),
               inplace |-> FALSE, norm_at |-> None]
         ELSE [error |-> "none", var |-> new, pair |-> norm_grad,
               grad |-> IF layerwise THEN {LayerIndex(it, n)} ELSE AllLayers(n),
               inplace |-> FALSE,
               norm_at |-> IF norm_grad THEN GradientPoint(v, new) ELSE None]
    ELSE IF iface = "tf"
    THEN IF Cost(iface, tp) # "loss"
         THEN [error |-> Cost(iface, tp), var |-> v, pair |-> FALSE,
               grad |-> {}, inplace |-> FALSE, norm_at |-> None]
         ELSE IF ~v.whole
         THEN [error |-> "TypeError", var |-> v, pair |-> FALSE,
               grad |-> {}, inplace |-> FALSE, norm_at |-> None]
         ELSE [error |-> "none", var |-> new, pair |-> FALSE,
               grad |-> AllLayers(n), inplace |-> TRUE, norm_at |-> None]
    ELSE [error |-> "none", var |-> v, pair |-> FALSE, grad |-> {},
          inplace |-> FALSE, norm_at |-> None]

\* var, norm_g = <what step returned>: a pair unpacks; a weights object
\* unpacks along its first axis when that has length 2 and it is iterable.
CanUnpack(st, n, iterable) == st.pair \/ (st.var.whole /\ n = 2 /\ iterable)
Unpacked(st) == IF st.pair THEN st.var ELSE [st.var EXCEPT !.whole = FALSE]

\* ------------------------------------------------------------ early stopper
EsImproves(s, loss) == loss < s.best_loss
EsUpdate(s, loss, v) ==
    IF EsImproves(s, loss)
    THEN [best_loss |-> loss, best_var |-> v, count |-> 0]
    ELSE [s EXCEPT !.count = @ + 1]
EsStop(s, loss, patience) ==
    ~EsImproves(s, loss) /\ s.count + 1 >= patience
GetBestVar(s) == s.best_var


\* ------------------------------------------------------------------- state
\* After __init__: nothing built, no call made.
InitObject ==
    /\ built = FALSE
    /\ optimizer = NoOptimizer
    /\ var = None
    /\ iteration = 0
    /\ es = NewEs
    /\ pc = "idle"
    /\ lvar = None
    /\ stopping_criterion = FALSE
    /\ val_features = FALSE
    /\ plotter_callback = FALSE
    /\ call = "none"
    /\ result = "none"
    /\ next_id = 0
    /\ fits = 0
    /\ n_steps = 0
    /\ n_best = 0
    /\ best_at = 0
    /\ best_file = None
    /\ files = {}
    /\ rnd = NoRound

\* Configurations of the training loop.
Init ==
    /\ interface \in Interfaces
    /\ optimizer_name \in {"Adam", "Nesterov"}
    /\ type_problem \in {"classification", "descriptor_computation"}
    /\ training_type \in TrainingTypes
    /\ layerwise_learning_period \in 1 .. MaxPeriod
    /\ num_layers \in 1 .. MaxLayers
    /\ max_iterations \in 0 .. MaxIter
    /\ snapshot_frequency \in 0 .. MaxFreq
    /\ early_stopper_patience \in 0 .. MaxPatience
    /\ early_stopper \in BOOLEAN
    /\ InitObject

layerwise_learning == training_type = "layerwise"

\* build: build_optimizer, then initialize_weights, then built = True.
Build ==
    /\ pc = "idle"
    /\ ~built
    /\ call # "build"
    /\ LET bo == BuildOptimizer(optimizer_name, interface, optimizer) IN
        /\ call' = "build"
        /\ result' = IF bo.error = "none" THEN "ok" ELSE bo.error
        /\ optimizer' = bo.optimizer
        /\ IF bo.error = "none"
           THEN /\ var' = [id |-> next_id, whole |-> TRUE]
                /\ next_id' = next_id + 1
                /\ built' = TRUE
           ELSE UNCHANGED <<var, next_id, built>>
    /\ UNCHANGED <<config, iteration, es, locals, fits, n_steps, n_best,
                   best_at, best_file, files, rnd>>

\* fit without the built check.
FitStartUnchecked ==
    /\ pc = "idle"
    /\ fits < MaxFits
    /\ \E val \in BOOLEAN, cb \in BOOLEAN :
        /\ call' = "fit"
        /\ result' = "running"
        /\ fits' = fits + 1
        /\ iteration' = 0
        /\ lvar' = var
        /\ stopping_criterion' = FALSE
        /\ val_features' = val
        /\ plotter_callback' = cb
        /\ pc' = "loop"
        /\ n_steps' = 0
        /\ n_best' = 0
        /\ best_at' = 0
        /\ files' = {}
        /\ rnd' = NoRound
        /\ UNCHANGED <<config, built, optimizer, var, es, next_id, best_file>>

\* fit, up to the loop: the built check, iteration = 0, var = self.var.
FitStart ==
    /\ pc = "idle"
    /\ \E val \in BOOLEAN, cb \in BOOLEAN :
        IF ~built
        THEN /\ call # "fit"
             /\ call' = "fit"
             /\ result' = "ValueError"
             /\ UNCHANGED <<config, object, locals, next_id, fits, n_steps,
                            n_best, best_at, best_file, files, rnd>>
        ELSE /\ fits < MaxFits
             /\ call' = "fit"
             /\ result' = "running"
             /\ fits' = fits + 1
             /\ iteration' = 0
             /\ lvar' = var
             /\ stopping_criterion' = FALSE
             /\ val_features' = val
             /\ plotter_callback' = cb
             /\ pc' = "loop"
             /\ n_steps' = 0
             /\ n_best' = 0
             /\ best_at' = 0
             /\ files' = {}
             /\ rnd' = NoRound
             /\ UNCHANGED <<config, built, optimizer, var, es, next_id,
                            best_file>>

\* The early stopper is consulted this round.
Consults ==
    /\ val_features
    /\ early_stopper
    /\ iteration > 2 * early_stopper_patience

\* A periodic snapshot is due this round.
SnapshotDue ==
    /\ snapshot_frequency > 0
    /\ iteration % snapshot_frequency = 0

\* fit leaves by an exception: the call is over, the locals are gone.
Raise(error) ==
    /\ pc' = "idle"
    /\ result' = error
    /\ UNCHANGED <<lvar, stopping_criterion, val_features, plotter_callback>>

\* The counter rolled back by the patience on a stop.
NextIterationRolledBack(stop, it, patience) ==
    IF stop THEN it - patience ELSE it + 1

\* The counter never advanced.
NextIterationStuck(stop, it, patience) == it

\* self.iteration at the end of a round: on a stop, iteration - patience is
\* only the best_iter of the log message; else the counter advances.
NextIteration(stop, it, patience) ==
    IF stop THEN it ELSE it + 1

\* One pass through the body of the while loop.  loss is the validation
\* loss, iterable says whether a weights object can be iterated, cb_fails
\* says whether the callback raises.
FitRound ==
    /\ pc = "loop"
    /\ ~stopping_criterion
    /\ iteration < max_iterations
    /\ \E loss \in IF Consults THEN 0 .. MaxLoss ELSE {0},
          iterable \in IF interface = "tf" /\ num_layers = 2
                       THEN BOOLEAN ELSE {TRUE},
          cb_fails \in IF plotter_callback THEN BOOLEAN ELSE {FALSE} :
        LET st == Step(interface, layerwise_learning, type_problem,
                       num_layers, lvar, iteration, TRUE, next_id)
            selfvar == IF st.inplace /\ lvar = var THEN st.var ELSE var
            v == Unpacked(st)
            stepped == [NoRound EXCEPT !.iter = iteration, !.error = st.error,
                                       !.pair = st.pair, !.grad = st.grad,
                                       !.given = lvar, !.stepped = st.var,
                                       !.norm_at = st.norm_at]
            stop == Consults /\ EsStop(es, loss, early_stopper_patience)
            end == IF stop THEN GetBestVar(EsUpdate(es, loss, v)) ELSE v
        IN
        /\ n_steps' = n_steps + 1
        /\ UNCHANGED <<config, built, optimizer, call, fits, n_best, best_at,
                       best_file>>
        /\ IF st.error # "none"
           THEN /\ Raise(st.error)
                /\ rnd' = stepped
                /\ UNCHANGED <<var, iteration, es, next_id, files>>
           ELSE
           /\ next_id' = next_id + 1
           /\ IF ~CanUnpack(st, num_layers, iterable)
              THEN /\ Raise("UnpackError")
                   /\ rnd' = stepped
                   /\ var' = selfvar
                   /\ UNCHANGED <<iteration, es, files>>
              ELSE
              /\ es' = IF Consults THEN EsUpdate(es, loss, v) ELSE es
              /\ files' = IF SnapshotDue
                          THEN files \cup {[name |-> iteration, var |-> selfvar]}
                          ELSE files
              /\ rnd' = [stepped EXCEPT !.updated = Consults, !.stop = stop,
                                        !.snapped = SnapshotDue,
                                        !.called = plotter_callback]
              /\ IF cb_fails
                 THEN /\ Raise("CallbackError")
                      /\ var' = selfvar
                      /\ UNCHANGED iteration
                 ELSE /\ stopping_criterion' = stop
                      /\ lvar' = end
                      /\ var' = end
                      /\ iteration' = NextIteration(stop, iteration,
                                                    early_stopper_patience)
                      /\ UNCHANGED <<pc, result, val_features,
                                     plotter_callback>>

\* Leaving the loop with the best snapshot written only after an early stop.
FitExitOnlyOnStop ==
    /\ pc = "loop"
    /\ ~(~stopping_criterion /\ iteration < max_iterations)
    /\ IF stopping_criterion
       THEN /\ best_file' = var
            /\ n_best' = n_best + 1
            /\ best_at' = n_steps
       ELSE UNCHANGED <<best_file, n_best, best_at>>
    /\ pc' = "idle"
    /\ result' = "ok"
    /\ UNCHANGED <<config, object, lvar, stopping_criterion, val_features,
                   plotter_callback, call, next_id, fits, n_steps, files, rnd>>

\* The loop is left: snapshot(is_best=True), then fit returns.
FitExit ==
    /\ pc = "loop"
    /\ ~(~stopping_criterion /\ iteration < max_iterations)
    /\ best_file' = var
    /\ n_best' = n_best + 1
    /\ best_at' = n_steps
    /\ pc' = "idle"
    /\ result' = "ok"
    /\ UNCHANGED <<config, object, lvar, stopping_criterion, val_features,
                   plotter_callback, call, next_id, fits, n_steps, files, rnd>>

\* predict_proba on a built model, with features to predict.
PredictProba ==
    /\ pc = "idle"
    /\ built
    /\ call # "predict_proba"
    /\ call' = "predict_proba"
    /\ result' = PredictProbaResult(interface, type_problem)
    /\ UNCHANGED <<config, object, locals, next_id, fits, n_steps, n_best,
                   best_at, best_file, files, rnd>>

Next == Build \/ FitStart \/ FitRound \/ FitExit

Spec == Init /\ [][Next]_vars


\* ------------------------------------------------- the calls outside of fit
\* cost on a built model.
CostCall ==
    /\ pc = "idle"
    /\ built
    /\ call # "cost"
    /\ call' = "cost"
    /\ result' = Cost(interface, type_problem)
    /\ UNCHANGED <<config, object, locals, next_id, fits, n_steps, n_best,
                   best_at, best_file, files, rnd>>

\* Every interface, optimizer name and problem type; no training.
InitApi ==
    /\ interface \in Interfaces \cup {"jax"}
    /\ optimizer_name \in OPTIMIZER_NAMES \cup {"Nesterov"}
    /\ type_problem \in TypeProblems
    /\ training_type \in TrainingTypes
    /\ layerwise_learning_period = 1
    /\ num_layers = 1
    /\ max_iterations = 0
    /\ snapshot_frequency = 0
    /\ early_stopper_patience = 0
    /\ early_stopper = FALSE
    /\ InitObject

NextApi == Build \/ PredictProba \/ CostCall \/ FitStart \/ FitExit

SpecApi == InitApi /\ [][NextApi]_vars


\* The loop of fit, with every started call running on: each round and the
\* exit are taken once they can be.
SpecFair == Spec /\ WF_vars(FitRound) /\ WF_vars(FitExit)

\* ------------------------------------------------------------------ claims
\* A fit call on the built model has ended (returned or raised).
FitEnded == call = "fit" /\ built /\ pc = "idle"
Trainable == Cost(interface, type_problem) = "loss"

\* C1: a fit call with no validation data and snapshot_frequency = 0 (here:
\* no callback supplied, a problem type that has a loss) performs exactly
\* max_iterations gradient steps, no periodic snapshot and exactly one best
\* snapshot.
C1_ExactSteps ==
    (FitEnded /\ ~val_features /\ snapshot_frequency = 0
        /\ ~plotter_callback /\ Trainable)
    => (n_steps = max_iterations /\ files = {} /\ n_best = 1)

\* C2: a fit call that leaves its loop (early stop or max_iterations reached,
\* max_iterations = 0 included) has written exactly one best snapshot, after
\* its last gradient step, and never one while the loop runs.
C2_OneBestSnapshot ==
    /\ (call = "fit" /\ result = "ok")
        => (n_best = 1 /\ best_at = n_steps /\ best_file = var)
    /\ pc = "loop" => n_best = 0
    /\ n_best <= 1

C2_Witness ==
    /\ call = "fit"
    /\ result = "ok"
    /\ stopping_criterion
    /\ n_steps > 1
    /\ n_best = 1

\* C3: update is fed only in rounds with validation data and iteration >
\* 2 * patience; once it signals stop, self.var is get_best_var() and the
\* loop takes no further step.
C3_StopRestoresBest ==
    /\ rnd.updated => (val_features /\ rnd.iter > 2 * early_stopper_patience)
    /\ rnd.stop => (var = GetBestVar(es) /\ (pc = "loop" => stopping_criterion))

\* C4: fit on a model that is not built raises ValueError and changes
\* nothing: iteration, parameters, early stopper, counters of steps and
\* snapshots, files and the callback are as before.
C4_UnbuiltFitFails ==
    [][(~built /\ call' = "fit")
        => (/\ result' = "ValueError"
            /\ pc' = "idle"
            /\ UNCHANGED <<object, locals, next_id, n_steps, n_best,
                           best_file, files, rnd>>)]_vars

C4_Witness == call = "fit" /\ ~built /\ result = "ValueError"

\* C5: in layer-wise mode the layers a step makes differentiable are exactly
\* the one with index (iteration // layerwise_learning_period) mod num_layers.
C5_LayerSchedule ==
    (layerwise_learning /\ interface = "autograd" /\ rnd.iter >= 0)
    => rnd.grad = {(rnd.iter \div layerwise_learning_period) % num_layers}

\* C6: a failing callback never raises to the caller of fit.
C6_CallbackSwallowed == result # "CallbackError"

\* C7: with snapshot_frequency > 0 a periodic snapshot is taken in exactly
\* the rounds whose iteration is a multiple of it (here: the rounds whose
\* step returned), is named with the iteration, and holds the parameters the
\* round's step returned.
C7_PeriodicSnapshot ==
    /\ \A f \in files :
        /\ snapshot_frequency > 0
        /\ f.name % snapshot_frequency = 0
        /\ f.name = rnd.iter => f.var = rnd.stepped
    /\ (rnd.iter >= 0 /\ rnd.pair)
        => (rnd.snapped <=> (snapshot_frequency > 0
                             /\ rnd.iter % snapshot_frequency = 0))

\* C8: step called with the gradient norm requested returns a pair
\* (parameters, norm) on every interface and in every training type.
C8_StepReturnsPair ==
    (rnd.iter >= 0 /\ rnd.error = "none") => rnd.pair

\* C9: build_optimizer raises ValueError for an unrecognized name and sets
\* no optimizer; for the four names and the two interfaces it leaves an
\* optimizer constructed.
C9_BuildOptimizer ==
    call = "build"
    => IF optimizer_name \notin OPTIMIZER_NAMES
       THEN result = "ValueError" /\ optimizer = NoOptimizer
       ELSE interface \in Interfaces
            => (result = "ok" /\ optimizer # NoOptimizer)

\* C10: predict_proba raises ValueError for regression and
\* reinforcement_learning, returns probabilities for classification and
\* multiclassification, and ends in no other failure for any problem type.
C10_PredictProba ==
    (call = "predict_proba" /\ interface \in Interfaces)
    => /\ type_problem \in {"regression", "reinforcement_learning"}
            => result = "ValueError"
       /\ type_problem \in {"classification", "multiclassification"}
            => result = "proba"
       /\ result \in {"proba", "ValueError"}

\* C11: cost raises ValueError for every (interface, type_problem) that has
\* no loss branch and returns a loss for every combination that has one.
C11_CostErrors ==
    call = "cost"
    => result = IF interface \in {"autograd", "tf"}
                   /\ type_problem # "descriptor_computation"
                THEN "loss" ELSE "ValueError"

\* C12: iteration is 0 when a fit call enters its loop, never exceeds
\* max_iterations, and after every round (here: no callback supplied, a
\* problem type that has a loss) is the round's iteration plus 1 when no stop
\* was signaled and the round's iteration when one was.
C12_IterationCounter ==
    /\ iteration >= 0
    /\ iteration <= max_iterations
    /\ (pc = "loop" /\ rnd = NoRound) => iteration = 0
    /\ (built /\ rnd.iter >= 0 /\ ~plotter_callback /\ Trainable)
        => iteration = rnd.iter + (IF rnd.stop THEN 0 ELSE 1)

\* C13: when a fit call enters its loop (the first, or one after a fit call
\* that returned) the early stopper holds no loss, no best parameters and no
\* count from an earlier fit call.
C13_StopperReset ==
    (pc = "loop" /\ n_steps = 0 /\ (fits > 1 => best_file # None))
    => es = NewEs

\* C14 as amended: in default mode the norm step returns is that of the
\* gradient at the parameters the optimizer update produced (the parameters
\* step returns), not at the parameters passed in.
C14_NormAtStepped ==
    (rnd.iter >= 0 /\ ~layerwise_learning /\ rnd.pair)
    => (rnd.norm_at = rnd.stepped /\ rnd.norm_at # rnd.given)

C14_Witness ==
    /\ rnd.iter >= 1
    /\ ~layerwise_learning
    /\ rnd.pair
    /\ rnd.norm_at = rnd.stepped
    /\ var = rnd.stepped

\* C14 as stated: in default mode the norm step returns is that of the
\* gradient at the parameters passed in, not at those the update produced.
C14_NormAtGiven ==
    (rnd.iter >= 0 /\ ~layerwise_learning /\ rnd.pair)
    => (rnd.norm_at = rnd.given /\ rnd.norm_at # rnd.stepped)

\* C15 as amended: when early stopping fires the iteration counter keeps the
\* value it had in that round (iteration - patience is only logged) and the
\* loop is not re-run: no further round of that fit call follows.
C15_StopKeepsIteration ==
    rnd.stop => (iteration = rnd.iter /\ (pc = "loop" => stopping_criterion))

C15_Witness ==
    /\ rnd.stop
    /\ early_stopper_patience > 0
    /\ fits = 1
    /\ result = "ok"
    /\ iteration = rnd.iter

\* C15 as stated: when early stopping fires the iteration counter is reset
\* to iteration - patience and the loop is not re-run.
C15_StopResetsIteration ==
    rnd.stop => (iteration = rnd.iter - early_stopper_patience
                 /\ (pc = "loop" => stopping_criterion))

\* C16: a fit call on a built model terminates: its loop body runs at most
\* max_iterations times, each round advances the counter or sets the stop
\* flag (or leaves fit by an exception), and the loop can always take a
\* round or exit.
C16_RoundsBounded ==
    /\ n_steps <= max_iterations
    /\ pc = "loop"
        => /\ n_steps = iteration + (IF stopping_criterion THEN 1 ELSE 0)
           /\ ENABLED (FitRound \/ FitExit)

\* The same as a liveness property of SpecFair: a call in its loop comes to
\* its end.
FitTerminates == [](C16_RoundsBounded) /\ (pc = "loop" ~> pc = "idle")

C16_Witness ==
    /\ call = "fit"
    /\ result = "ok"
    /\ fits = 2
    /\ ~stopping_criterion
    /\ max_iterations > 1
    /\ n_steps = max_iterations

=============================================================================
